---- MODULE Spec2Model ----
(***************************************************************************)
(* Model of pkg/verifier (verifier.go): Verify and the functions it calls. *)
(*                                                                         *)
(* Strings and byte slices are sequences of byte values 0..255.            *)
(* SHA-256 is an ideal collision-free hash: Sha256 is an injective         *)
(* encoding of its input.  HMAC-SHA256 is an unknown but fixed function:   *)
(* hmacTable holds the part of it that has been evaluated so far, and a    *)
(* value not yet evaluated may turn out to be any block.                   *)
(* Verify is run twice: on a report, then on a variant of that report      *)
(* (the same report, its players swapped, one bit of server_seed flipped,  *)
(* or one character of rolls replaced), so that the outcomes compare.      *)
(***************************************************************************)
EXTENDS Integers, Sequences, FiniteSets, TLC

\* ---------------------------------------------------------------- bounds
\* Number of values of the nonce counter of the model (a uint32 in the code,
\* 2^32 values); the arithmetic is the code's, modulo NonceModulus.
NonceModulus == 2
\* Length in bytes of one keyed-hash block of the model (32 in the code).
BlockLen == 2
\* Longest rolls string of a report.
MaxRollsLen == 4

RECURSIVE Pow2(_)
Pow2(n) == IF n = 0 THEN 1 ELSE 2 * Pow2(n - 1)

\* Bytes the keyed hash may produce: one per face class and the rejected ones.
ByteSamples == {0, 251, 252}
Blocks == [1..BlockLen -> ByteSamples]

\* ------------------------------------------------------------ characters
Colon == 58      \* ':'
Zero == 48       \* '0'

\* encoding/hex: value of one hex digit, 16 when the byte is no hex digit.
fromHexChar(c) ==
    IF c >= 48 /\ c <= 57 THEN c - 48
    ELSE IF c >= 97 /\ c <= 102 THEN c - 97 + 10
    ELSE IF c >= 65 /\ c <= 70 THEN c - 65 + 10
    ELSE 16

\* encoding/hex: the lower-case digit of a nibble.
toHexChar(n) == IF n < 10 THEN 48 + n ELSE 97 + (n - 10)

HexValid(s) ==
    /\ Len(s) % 2 = 0
    /\ \A k \in 1..Len(s) : fromHexChar(s[k]) < 16

HexBytes(s) ==
    [k \in 1..(Len(s) \div 2) |->
        16 * fromHexChar(s[2 * k - 1]) + fromHexChar(s[2 * k])]

decodeHexUnchecked(s) == [ok |-> TRUE, bytes |-> HexBytes(s)]

\* decodeHex(s, name): the bytes, or the error "<name> is not valid hex".
decodeHex(s) == [ok |-> HexValid(s), bytes |-> IF HexValid(s) THEN HexBytes(s) ELSE <<>>]

EncodeToString(b) ==
    [k \in 1..(2 * Len(b)) |->
        IF k % 2 = 1 THEN toHexChar(b[(k + 1) \div 2] \div 16)
                     ELSE toHexChar(b[k \div 2] % 16)]

\* sha256.Sum256: collision-free, so an injective encoding of the input.
Sha256(b) == <<Len(b)>> \o b

sha256Hex(b) == EncodeToString(Sha256(b))

\* strconv.FormatInt(n, 10)
RECURSIVE Digits(_)
Digits(n) == IF n < 10 THEN <<Zero + n>> ELSE Digits(n \div 10) \o <<Zero + (n % 10)>>

FormatInt(n) == IF n < 0 THEN <<45>> \o Digits(-n) ELSE Digits(n)

\* Go's < on strings: byte-wise lexicographic order.
StrLess(s, t) ==
    \E k \in 1..Len(t) :
        /\ \A j \in 1..(k - 1) : j <= Len(s) /\ s[j] = t[j]
        /\ (k = Len(s) + 1 \/ (k <= Len(s) /\ s[k] < t[k]))

\* ------------------------------------------------------------ combinedSeed
\* The header "<left>:<right>:" of combinedSeed(a, b).
mixHeader(a, b) ==
    LET aUID == FormatInt(a.UID)
        bUID == FormatInt(b.UID)
        leftFirst == StrLess(aUID, bUID)
    IN  IF leftFirst THEN aUID \o <<Colon>> \o bUID \o <<Colon>>
                     ELSE bUID \o <<Colon>> \o aUID \o <<Colon>>

seedsSwappedNumeric(a, b) == a.UID > b.UID

\* The swap decision of combinedSeed(a, b): aUID > bUID on the strings.
seedsSwapped(a, b) == StrLess(FormatInt(b.UID), FormatInt(a.UID))

\* combinedSeed(a, b): the digest, or the error "clientSeed is not valid hex".
combinedSeed(a, b) ==
    LET first == IF seedsSwapped(a, b) THEN b.ClientSeed ELSE a.ClientSeed
        second == IF seedsSwapped(a, b) THEN a.ClientSeed ELSE b.ClientSeed
        ha == decodeHex(first)
        hb == decodeHex(second)
    IN  IF ~ha.ok \/ ~hb.ok
        THEN [ok |-> FALSE, sum |-> <<>>]
        ELSE [ok |-> TRUE,
              sum |-> Sha256(mixHeader(a, b) \o ha.bytes \o <<Colon>> \o hb.bytes)]

\* ----------------------------------------------------------------- dice
acceptedAny(v) == v < 256
acceptedNever(v) == v < 0

\* drawDie: a byte is used when v < 252.
accepted(v) == v < 252

\* drawDie: the face of an accepted byte.
dieFace(v) == (v % 6) + 1

\* ------------------------------------------------------------------ state
VARIABLES
    rep1,       \* the report of the first run
    mut,        \* how the report of the second run differs from rep1
    run,        \* 1 or 2
    res1,       \* what the first run returned
    rep,        \* Verify: the report being verified
    pc,         \* Verify: the position in the code
    err,        \* Verify: the returned value, once pc = "done"
    srvSeed,    \* Verify: decoded server seed
    combined,   \* Verify: combined seed
    nonce,      \* Verify: the nonce counter
    i,          \* Verify: offset into rep.Rolls
    pool,       \* rollDice: the current block
    idx,        \* rollDice: cursor into pool
    dice,       \* rollDice: the dice drawn so far in this roll
    hmacTable,  \* the keyed hash, as far as it has been evaluated
    used,       \* history: nonces of the blocks generated in this run
    lastNonce,  \* history: nonce of the latest block generated in this run, -1 if none
    checked,    \* history: the checks evaluated in this run, in order
    fromByte,   \* history: the byte each die of this roll came from
    lastByte,   \* history: the latest byte read in this run, -1 if none
    rolled      \* history: the pairs rollDice returned in this run, in order

vars == <<rep1, mut, run, res1, rep, pc, err, srvSeed, combined, nonce, i, pool,
          idx, dice, hmacTable, used, lastNonce, checked, fromByte, lastByte,
          rolled>>

\* ------------------------------------------------------------ return values
Failure(m) == [msg |-> m, pos |-> 0, expected |-> <<0, 0>>, actual |-> <<0, 0>>]
Running == Failure("running")
Nil == Failure("nil")
ErrPlayers == Failure("report must contain exactly 2 players")
ErrOdd == Failure("report must contain exactly odds rolls")
ErrServerHex == Failure("serverSeed is not valid hex")
ErrCommit == Failure("server_hash mismatch")
ErrClientHex == Failure("clientSeed is not valid hex")
ErrRollByIndex(at, d1, d2, r1, r2) ==
    [msg |-> "roll mismatch", pos |-> at \div 2, expected |-> <<d1, d2>>,
     actual |-> <<(r1 + 256 - 48) % 256, (r2 + 256 - 48) % 256>>]

\* fmt.Errorf("roll %d mismatch: expected (%v,%v), but got(%v,%v)", i, d1, d2, r1-'0', r2-'0')
ErrRoll(at, d1, d2, r1, r2) ==
    [msg |-> "roll mismatch", pos |-> at, expected |-> <<d1, d2>>,
     actual |-> <<(r1 + 256 - Zero) % 256, (r2 + 256 - Zero) % 256>>]

Check(name, at) == [name |-> name, at |-> at]

\* ------------------------------------------------------------------- Verify
Return(e) == /\ err' = e
             /\ pc' = "done"

\* if len(rep.Players) != 2
CheckPlayers ==
    /\ pc = "players"
    /\ checked' = Append(checked, Check("players", 0))
    /\ IF Len(rep.Players) # 2
       THEN Return(ErrPlayers)
       ELSE pc' = "parity" /\ err' = err
    /\ UNCHANGED <<rep1, mut, run, res1, rep, srvSeed, combined, nonce, i, pool, idx,
                   dice, hmacTable, used, lastNonce, fromByte, lastByte, rolled>>

\* if len(rep.Rolls)%2 != 0
CheckParity ==
    /\ pc = "parity"
    /\ checked' = Append(checked, Check("parity", 0))
    /\ IF Len(rep.Rolls) % 2 # 0
       THEN Return(ErrOdd)
       ELSE pc' = "srvhex" /\ err' = err
    /\ UNCHANGED <<rep1, mut, run, res1, rep, srvSeed, combined, nonce, i, pool, idx,
                   dice, hmacTable, used, lastNonce, fromByte, lastByte, rolled>>

\* srvSeed, err := decodeHex(rep.ServerSeed, "serverSeed")
DecodeServerSeed ==
    /\ pc = "srvhex"
    /\ checked' = Append(checked, Check("serverSeed", 0))
    /\ LET r == decodeHex(rep.ServerSeed)
       IN  IF ~r.ok
           THEN Return(ErrServerHex) /\ srvSeed' = srvSeed
           ELSE pc' = "commit" /\ err' = err /\ srvSeed' = r.bytes
    /\ UNCHANGED <<rep1, mut, run, res1, rep, combined, nonce, i, pool, idx,
                   dice, hmacTable, used, lastNonce, fromByte, lastByte, rolled>>

commitmentHoldsAlways(seed, hash) == TRUE

\* sha256Hex(srvSeed) == rep.ServerSeedHash
commitmentHolds(seed, hash) == sha256Hex(seed) = hash

CheckCommitment ==
    /\ pc = "commit"
    /\ checked' = Append(checked, Check("commitment", 0))
    /\ IF ~commitmentHolds(srvSeed, rep.ServerSeedHash)
       THEN Return(ErrCommit)
       ELSE pc' = "mix" /\ err' = err
    /\ UNCHANGED <<rep1, mut, run, res1, rep, srvSeed, combined, nonce, i, pool, idx,
                   dice, hmacTable, used, lastNonce, fromByte, lastByte, rolled>>

\* combined, err := combinedSeed(rep.Players[0], rep.Players[1]); var nonce uint32
CombineSeeds ==
    /\ pc = "mix"
    /\ checked' = Append(checked, Check("clientSeeds", 0))
    /\ LET r == combinedSeed(rep.Players[1], rep.Players[2])
       IN  IF ~r.ok
           THEN Return(ErrClientHex) /\ combined' = combined
           ELSE pc' = "loop" /\ err' = err /\ combined' = r.sum
    /\ nonce' = 0
    /\ i' = 0
    /\ UNCHANGED <<rep1, mut, run, res1, rep, srvSeed, pool, idx,
                   dice, hmacTable, used, lastNonce, fromByte, lastByte, rolled>>

\* for i := 0; i < len(rep.Rolls); ...  and the final return nil
LoopTest ==
    /\ pc = "loop"
    /\ IF i < Len(rep.Rolls)
       THEN pc' = "roll" /\ err' = err
       ELSE Return(Nil)
    /\ UNCHANGED <<rep1, mut, run, res1, rep, srvSeed, combined, nonce, i, pool, idx,
                   dice, hmacTable, used, lastNonce, checked, fromByte, lastByte,
                   rolled>>

\* hmacBlock(key, prefix, n): the block of the keyed hash at <<key, prefix, n>>,
\* the same block whenever the same input is hashed again.
hmacBlock(key, prefix, n, blk) ==
    LET q == <<key, prefix, n>>
    IN  IF q \in DOMAIN hmacTable
        THEN /\ blk = hmacTable[q]
             /\ hmacTable' = hmacTable
        ELSE hmacTable' = (q :> blk) @@ hmacTable

\* rollDice: pool := hmacBlock(serverSeed, combined, *nonce); *nonce++; idx := 0
RollDice ==
    /\ pc = "roll"
    /\ \E blk \in Blocks :
          /\ hmacBlock(srvSeed, combined, nonce, blk)
          /\ pool' = blk
    /\ used' = used \cup {nonce}
    /\ lastNonce' = nonce
    /\ nonce' = (nonce + 1) % NonceModulus
    /\ idx' = 0
    /\ dice' = <<>>
    /\ fromByte' = <<>>
    /\ pc' = "draw"
    /\ UNCHANGED <<rep1, mut, run, res1, rep, err, srvSeed, combined, i, checked,
                   lastByte, rolled>>

\* drawDie: if *idx >= len(*pool) { *pool = hmacBlock(...); *idx, *nonce = 0, *nonce+1 }
DrawRefill ==
    /\ pc = "draw"
    /\ idx >= Len(pool)
    /\ \E blk \in Blocks :
          /\ hmacBlock(srvSeed, combined, nonce, blk)
          /\ pool' = blk
    /\ used' = used \cup {nonce}
    /\ lastNonce' = nonce
    /\ nonce' = (nonce + 1) % NonceModulus
    /\ idx' = 0
    /\ UNCHANGED <<rep1, mut, run, res1, rep, pc, err, srvSeed, combined, i, dice,
                   checked, fromByte, lastByte, rolled>>

\* drawDie: v := (*pool)[*idx]; *idx++; if v < 252 { return int(v%6) + 1 }
DrawRead ==
    /\ pc = "draw"
    /\ idx < Len(pool)
    /\ LET v == pool[idx + 1]
       IN  /\ lastByte' = v
           /\ idx' = idx + 1
           /\ IF accepted(v)
              THEN /\ dice' = Append(dice, dieFace(v))
                   /\ fromByte' = Append(fromByte, v)
                   /\ IF Len(dice) = 1
                      THEN pc' = "compare" /\ rolled' = Append(rolled, dice')
                      ELSE pc' = pc /\ rolled' = rolled
              ELSE UNCHANGED <<dice, fromByte, pc, rolled>>
    /\ UNCHANGED <<rep1, mut, run, res1, rep, err, srvSeed, combined, nonce, i, pool,
                   hmacTable, used, lastNonce, checked>>

rollsDifferFirstOnly(e1, e2, r1, r2) == e1 # r1

\* if e1 != r1 || e2 != r2
rollsDiffer(e1, e2, r1, r2) == e1 # r1 \/ e2 # r2

\* i += 2
nextOffset(n) == n + 2

\* r1, r2 := rep.Rolls[i], rep.Rolls[i+1]; e1 := byte(d1) + '0'; ...
Compare ==
    /\ pc = "compare"
    /\ checked' = Append(checked, Check("roll", i))
    /\ LET r1 == rep.Rolls[i + 1]
           r2 == rep.Rolls[i + 2]
           e1 == dice[1] + Zero
           e2 == dice[2] + Zero
       IN  IF rollsDiffer(e1, e2, r1, r2)
           THEN Return(ErrRoll(i, dice[1], dice[2], r1, r2)) /\ i' = i
           ELSE pc' = "loop" /\ err' = err /\ i' = nextOffset(i)
    /\ UNCHANGED <<rep1, mut, run, res1, rep, srvSeed, combined, nonce, pool, idx,
                   dice, hmacTable, used, lastNonce, fromByte, lastByte, rolled>>

\* ------------------------------------------------- the second run's report
FlipBit(c, k) == IF (c \div Pow2(k)) % 2 = 1 THEN c - Pow2(k) ELSE c + Pow2(k)

Same == [kind |-> "same", at |-> 0, v |-> 0]
Swap == [kind |-> "swap", at |-> 0, v |-> 0]
Bit(at, k) == [kind |-> "bit", at |-> at, v |-> k]
Digit(at, d) == [kind |-> "digit", at |-> at, v |-> d]

\* at is a zero-based offset, as in the code.
Variant(r, m) ==
    CASE m.kind = "swap" -> [r EXCEPT !.Players = <<r.Players[2], r.Players[1]>>]
      [] m.kind = "bit" -> [r EXCEPT !.ServerSeed[m.at + 1] = FlipBit(@, m.v)]
      [] m.kind = "digit" -> [r EXCEPT !.Rolls[m.at + 1] = Zero + m.v]
      [] OTHER -> r

\* The variants of an accepted report r that the second run may be given, and
\* of a rejected one: the report again, or with its two players swapped.
DigitSamples == {0, 1, 6, 9}
Variants(r, e) ==
    {Same}
    \cup (IF Len(r.Players) = 2 THEN {Swap} ELSE {})
    \cup (IF e.msg = "nil"
          THEN {Bit(at, k) : at \in 0..(Len(r.ServerSeed) - 1), k \in 0..7}
               \cup {m \in {Digit(at, d) : at \in 0..(Len(r.Rolls) - 1), d \in DigitSamples} :
                        Zero + m.v # r.Rolls[m.at + 1]}
          ELSE {})

\* The caller runs Verify again, on a variant of the first report.
NextRun ==
    /\ pc = "done"
    /\ run = 1
    /\ run' = 2
    /\ res1' = err
    /\ \E m \in Variants(rep1, err) :
          /\ mut' = m
          /\ rep' = Variant(rep1, m)
    /\ pc' = "players"
    /\ err' = Running
    /\ srvSeed' = <<>>
    /\ combined' = <<>>
    /\ nonce' = 0
    /\ i' = 0
    /\ pool' = <<>>
    /\ idx' = 0
    /\ dice' = <<>>
    /\ used' = {}
    /\ lastNonce' = -1
    /\ checked' = <<>>
    /\ fromByte' = <<>>
    /\ lastByte' = -1
    /\ rolled' = <<>>
    /\ UNCHANGED <<rep1, hmacTable>>

\* ----------------------------------------------------------------- inputs
Entry(u, s) == [UID |-> u, ClientSeed |-> s]
Report(seed, hash, rolls, players) ==
    [ServerSeed |-> seed, ServerSeedHash |-> hash, Rolls |-> rolls, Players |-> players]

UIDs == {-1, 2, 10}
\* "01", "02", "0g"
ClientSeeds == {<<48, 49>>, <<48, 50>>, <<48, 103>>}
\* "0a", "0g", "0"
ServerSeeds == {<<48, 97>>, <<48, 103>>, <<48>>}
Hashes == {sha256Hex(<<10>>), sha256Hex(<<11>>)}
\* '1', '6'
RollChars == {49, 54}
RollStrings(n) == UNION {[1..k -> RollChars] : k \in 0..n}
\* The strings of at most two characters, and the longer ones that start "16".
RollSamples(n) ==
    RollStrings(2) \cup {s \in RollStrings(n) : Len(s) > 2 /\ s[1] = 49 /\ s[2] = 54}

TwoPlayers(U, S) == {<<Entry(u1, s1), Entry(u2, s2)>> : u1 \in U, u2 \in U, s1 \in S, s2 \in S}
OnePlayer == {<<Entry(2, <<48, 49>>)>>, <<Entry(2, <<48, 103>>)>>}
ThreePlayers == {<<Entry(-1, <<48, 49>>), Entry(2, <<48, 50>>), Entry(10, s)>> :
                    s \in {<<48, 49>>, <<48, 103>>}}

\* Two entries with one UID and two client seeds: the mix depends on their order.
Tied(pl) == pl[1].UID = pl[2].UID /\ pl[1].ClientSeed # pl[2].ClientSeed

\* Reports of every shape for one pair of UIDs, and reports with no roll or the
\* roll "16" and a valid commitment for every pair of UIDs and client seeds.
ShapeReports ==
    {Report(sd, h, rl, pl) :
        sd \in ServerSeeds, h \in Hashes, rl \in RollSamples(MaxRollsLen),
        pl \in TwoPlayers({2}, {<<48, 49>>, <<48, 103>>}) \cup OnePlayer \cup ThreePlayers}
MixReports ==
    {Report(<<48, 97>>, sha256Hex(<<10>>), rl, pl) :
        rl \in {<<>>, <<49, 54>>}, pl \in TwoPlayers(UIDs, ClientSeeds)}

Reports == ShapeReports \cup {r \in MixReports : Tied(r.Players) => r.Rolls = <<>>}

InitFrom(R) ==
    /\ rep1 \in R
    /\ mut = Same
    /\ run = 1
    /\ res1 = Running
    /\ rep = rep1
    /\ pc = "players"
    /\ err = Running
    /\ srvSeed = <<>>
    /\ combined = <<>>
    /\ nonce = 0
    /\ i = 0
    /\ pool = <<>>
    /\ idx = 0
    /\ dice = <<>>
    /\ hmacTable = <<>>
    /\ used = {}
    /\ lastNonce = -1
    /\ checked = <<>>
    /\ fromByte = <<>>
    /\ lastByte = -1
    /\ rolled = <<>>

Next ==
    \/ CheckPlayers
    \/ CheckParity
    \/ DecodeServerSeed
    \/ CheckCommitment
    \/ CombineSeeds
    \/ LoopTest
    \/ RollDice
    \/ DrawRefill
    \/ DrawRead
    \/ Compare
    \/ NextRun

Init == InitFrom(Reports)
Spec == Init /\ [][Next]_vars

\* The reports whose two players share a UID.
InitTied == InitFrom({r \in MixReports : r.Players[1].UID = r.Players[2].UID})
SpecTied == InitTied /\ [][Next]_vars

\* Weak fairness of the next step: Verify is one sequential computation and
\* always takes its next step.  The reports are the prefixes of "1616...".
LiveReports ==
    {Report(<<48, 97>>, h, rl, <<Entry(2, <<48, 49>>), Entry(10, <<48, 50>>)>>) :
        h \in Hashes,
        rl \in {s \in RollStrings(MaxRollsLen) :
                  \A k \in 1..Len(s) : s[k] = (IF k % 2 = 1 THEN 49 ELSE 54)}}
InitLive == InitFrom(LiveReports)
SpecLive == InitLive /\ [][Next]_vars /\ WF_vars(Next)

\* ------------------------------------------------------------- properties
Finished == pc = "done"
Pair(s, at) == <<s[at + 1] - Zero, s[at + 2] - Zero>>
IsHexChar(c) == c \in (48..57) \cup (97..102) \cup (65..70)
LooksHex(s) == Len(s) % 2 = 0 /\ \A k \in 1..Len(s) : IsHexChar(s[k])
Lower(c) == IF c \in 65..90 THEN c + 32 ELSE c
Mixed == combined # <<>>

\* C6: every die is (b mod 6) + 1 of a byte b in 0..251 read at the cursor, so
\* it lies in 1..6; each face has exactly 42 byte preimages; a byte in 252..255
\* yields no die; a roll that rollDice returns has consumed two accepted bytes.
DiceFromAcceptedBytes ==
    /\ Len(dice) = Len(fromByte)
    /\ \A k \in 1..Len(dice) :
          /\ fromByte[k] \in 0..251
          /\ dice[k] = (fromByte[k] % 6) + 1
          /\ dice[k] \in 1..6
    /\ lastByte >= 252 /\ dice # <<>> => pc = "draw" /\ Len(dice) = 1
    /\ pc = "compare" =>
          /\ Len(dice) = 2
          /\ fromByte[2] = pool[idx]
          /\ rolled[Len(rolled)] = dice
          /\ \A f \in 1..6 :
                Cardinality({b \in 0..255 : accepted(b) /\ dieFace(b) = f}) = 42

\* A roll whose first block ran out after a rejected byte.
DiceAfterRefill ==
    /\ pc = "compare"
    /\ i = 0
    /\ Cardinality(used) = 2
    /\ dice = <<1, 6>>

\* C7: every block generation of a run uses a nonce greater than the nonce of
\* every earlier block generation of that run.
NonceNeverReused ==
    [][run' = run /\ nonce' # nonce => \A u \in used : u < nonce]_vars

\* C8: on entry to the k-th call of rollDice (k = 0, 1, ...) the nonce is k.
NonceIsRollIndex == pc = "roll" => nonce = i \div 2

\* The checks of Verify on report r, in the order of the code.
CheckOrder(r) ==
    <<Check("players", 0), Check("parity", 0), Check("serverSeed", 0),
      Check("commitment", 0), Check("clientSeeds", 0)>>
    \o [k \in 1..(Len(r.Rolls) \div 2) |-> Check("roll", 2 * (k - 1))]

IsPrefix(s, t) == Len(s) <= Len(t) /\ \A k \in 1..Len(s) : s[k] = t[k]

\* Whether check c of the current run finds its violation.
Fails(c) ==
    CASE c.name = "players" -> Len(rep.Players) # 2
      [] c.name = "parity" -> Len(rep.Rolls) % 2 = 1
      [] c.name = "serverSeed" -> ~LooksHex(rep.ServerSeed)
      [] c.name = "commitment" -> sha256Hex(HexBytes(rep.ServerSeed)) # rep.ServerSeedHash
      [] c.name = "clientSeeds" -> \E k \in 1..2 : ~LooksHex(rep.Players[k].ClientSeed)
      [] OTHER -> rolled[c.at \div 2 + 1] # Pair(rep.Rolls, c.at)

\* The error that check c returns when it fails.
ErrorOf(c) ==
    CASE c.name = "players" -> ErrPlayers
      [] c.name = "parity" -> ErrOdd
      [] c.name = "serverSeed" -> ErrServerHex
      [] c.name = "commitment" -> ErrCommit
      [] c.name = "clientSeeds" -> ErrClientHex
      [] OTHER -> [msg |-> "roll mismatch", pos |-> c.at,
                   expected |-> rolled[c.at \div 2 + 1],
                   actual |-> Pair(rep.Rolls, c.at)]

\* C9: the checks run in the fixed order players, parity, server seed hex,
\* commitment, client seed hex, roll pairs left to right; Verify returns the
\* error of the first failing check, evaluates no check and generates no block
\* after it, and returns nil only when every check has passed.
ChecksInOrder ==
    /\ IsPrefix(checked, CheckOrder(rep))
    /\ \A k \in 1..(Len(checked) - 1) : ~Fails(checked[k])
    /\ ~Finished /\ checked # <<>> => ~Fails(checked[Len(checked)])
    /\ Len(checked) < 5 => used = {}
    /\ rolled # <<>> => Len(rolled) <= Len(checked) - 4
    /\ Finished =>
          /\ checked # <<>>
          /\ IF Fails(checked[Len(checked)])
             THEN /\ err = ErrorOf(checked[Len(checked)])
                  /\ Len(checked) <= 5 => used = {} /\ rolled = <<>>
                  /\ Len(checked) > 5 => Len(rolled) = Len(checked) - 5
             ELSE /\ err = Nil
                  /\ checked = CheckOrder(rep)

\* A run that stopped at the second roll pair.
StoppedAtSecondRoll ==
    /\ Finished
    /\ run = 1
    /\ err.msg = "roll mismatch"
    /\ err.pos = 2
    /\ Len(rep.Rolls) = 4
    /\ Len(checked) = 7

SecondDone(kind) == run = 2 /\ Finished /\ mut.kind = kind

\* C1 (as claimed): combinedSeed(a, b) = combinedSeed(b, a) for every two
\* entries, equal UIDs included, and Verify returns the same outcome for a
\* report and for the report with its two players swapped.
SwapSameOutcome ==
    SecondDone("swap") =>
        /\ combinedSeed(rep1.Players[1], rep1.Players[2])
             = combinedSeed(rep1.Players[2], rep1.Players[1])
        /\ err = res1

\* C2 (as claimed): flipping one bit of the server_seed of an accepted report,
\* the hash left alone, makes Verify fail with "server_hash mismatch".
BitFlipIsCommitmentMismatch == SecondDone("bit") => err = ErrCommit

SameHexDigits(s, t) == Len(s) = Len(t) /\ \A k \in 1..Len(s) : Lower(s[k]) = Lower(t[k])

\* C2 (amended): after one bit of the server_seed of an accepted report is
\* flipped, Verify fails with "serverSeed is not valid hex" when the string is
\* no longer hex, still accepts when only the case of a hex letter changed, and
\* fails with "server_hash mismatch" in every other case.
BitFlipOutcome ==
    SecondDone("bit") =>
        /\ res1 = Nil
        /\ err = IF ~LooksHex(rep.ServerSeed) THEN ErrServerHex
                 ELSE IF SameHexDigits(rep.ServerSeed, rep1.ServerSeed) THEN Nil
                 ELSE ErrCommit

\* A flipped bit that turns a hex digit into another hex digit.
BitFlipCaught == SecondDone("bit") /\ err = ErrCommit /\ rep1.Rolls # <<>>

\* C3: replacing one character of the rolls of an accepted report by another
\* digit makes Verify fail with a roll mismatch at the offset of the pair that
\* holds the character, with the generated pair as expected and the reported
\* pair as actual; the pairs before it compare equal, and the dice generated
\* are those generated for the accepted report.
DigitChangeIsRollMismatch ==
    SecondDone("digit") =>
        LET at == mut.at - (mut.at % 2)
            k == at \div 2 + 1
        IN  /\ res1 = Nil
            /\ err.msg = "roll mismatch"
            /\ err.pos = at
            /\ err.expected = rolled[k]
            /\ err.actual = Pair(rep.Rolls, at)
            /\ err.actual # err.expected
            /\ Len(rolled) = k
            /\ \A m \in 1..k : rolled[m] = Pair(rep1.Rolls, 2 * (m - 1))
            /\ \A m \in 1..(k - 1) : rolled[m] = Pair(rep.Rolls, 2 * (m - 1))

\* The last digit of a two-roll report replaced.
SecondRollDigitChanged == SecondDone("digit") /\ mut.at = 3 /\ err.pos = 2

Structural(e) == e \in {ErrPlayers, ErrOdd}
BadClientSeed == \E k \in 1..Len(rep.Players) : ~LooksHex(rep.Players[k].ClientSeed)

\* C4 (as claimed): for every report, 1 or 3 players give the structural
\* error, an odd rolls length gives the structural error, and a client_seed
\* that is not hex gives "clientSeed is not valid hex".
RejectionsForEveryReport ==
    Finished =>
        /\ Len(rep.Players) \in {1, 3} => Structural(err)
        /\ Len(rep.Rolls) % 2 = 1 => Structural(err)
        /\ BadClientSeed => err = ErrClientHex

\* C4 (amended): 1 or 3 players give the structural error; an odd rolls
\* length gives the structural error; a client_seed that is not hex gives
\* "clientSeed is not valid hex" when the report has two players, rolls of even
\* length, a server seed that is hex and the commitment that matches it.
RejectionsInOrder ==
    Finished =>
        /\ Len(rep.Players) \in {1, 3} => err = ErrPlayers
        /\ Len(rep.Rolls) % 2 = 1 => Structural(err)
        /\ Len(rep.Rolls) % 2 = 1 /\ Len(rep.Players) = 2 => err = ErrOdd
        /\ ( /\ BadClientSeed
             /\ Len(rep.Players) = 2
             /\ Len(rep.Rolls) % 2 = 0
             /\ LooksHex(rep.ServerSeed)
             /\ sha256Hex(HexBytes(rep.ServerSeed)) = rep.ServerSeedHash )
           => err = ErrClientHex

\* A well-formed report but for one client seed.
ClientSeedRejected ==
    /\ Finished
    /\ run = 1
    /\ err = ErrClientHex
    /\ LooksHex(rep.Players[1].ClientSeed)
    /\ Len(rep.Rolls) = 2

\* The digest of header "<l>:<r>:", seed of entry s, ':', seed of entry t.
MixOf(l, r, s, t) ==
    Sha256(FormatInt(rep.Players[l].UID) \o <<Colon>>
           \o FormatInt(rep.Players[r].UID) \o <<Colon>>
           \o HexBytes(rep.Players[s].ClientSeed) \o <<Colon>>
           \o HexBytes(rep.Players[t].ClientSeed))
LexNotAfter(p, q) ==
    ~StrLess(FormatInt(rep.Players[q].UID), FormatInt(rep.Players[p].UID))
Orders == {<<1, 2>>, <<2, 1>>}

\* C5 (as claimed): the header names first the entry whose decimal UID string
\* is lexicographically smaller, and the seeds are placed with the seed of the
\* numerically smaller UID first.
SeedsInNumericOrder ==
    Mixed =>
        \E h \in Orders, o \in Orders :
            /\ LexNotAfter(h[1], h[2])
            /\ rep.Players[o[1]].UID <= rep.Players[o[2]].UID
            /\ combined = MixOf(h[1], h[2], o[1], o[2])

\* C5 (amended): the header names first the entry whose decimal UID string is
\* lexicographically smaller, and the seeds are placed by the same comparison
\* of the decimal UID strings: the seed of the lexicographically smaller UID
\* string first, and the seed of the first entry first when the UIDs are equal.
SeedsInLexicographicOrder ==
    Mixed =>
        \E h \in Orders, o \in Orders :
            /\ LexNotAfter(h[1], h[2])
            /\ LexNotAfter(o[1], o[2])
            /\ rep.Players[1].UID = rep.Players[2].UID => o = <<1, 2>>
            /\ combined = MixOf(h[1], h[2], o[1], o[2])

\* UIDs 2 and 10: "10" sorts before "2".
MixedLexBeforeNumeric ==
    /\ Mixed
    /\ rep.Players[1].UID = 2
    /\ rep.Players[2].UID = 10
    /\ rep.Players[1].ClientSeed # rep.Players[2].ClientSeed

Rejecting == pc = "draw" /\ lastByte >= 252

\* C10 (as claimed): Verify terminates on every report, whatever bytes the
\* keyed hash produces.
VerifyTerminates == <>(run = 2 /\ Finished)

\* C10 (amended): Verify terminates on every report unless from some point on
\* every byte that drawDie reads is 252 or more; drawDie returns at the first
\* byte below 252 and has no bound on the bytes it reads before it.
TerminatesUnlessRejecting == <>(run = 2 /\ Finished) \/ <>[]Rejecting

\* A verification that ended after drawDie had to refill its block.
FinishedAfterRefill ==
    /\ run = 2
    /\ Finished
    /\ err = Nil
    /\ Len(rep.Rolls) = 2
    /\ Cardinality(used) = 2

====
